---- MODULE Spec2Model ----
(***************************************************************************)
(* Model of YorXPA (src/yor-xpa.c, src/xpa.i): the static reply arrays     *)
(* filled by XPAGet/XPASet, the XPAData answer object built from them by   *)
(* push_xpadata, and the object's eval / extract / print / free methods.   *)
(*                                                                         *)
(* Conventions.  Pointers are heap indices, NULL is 0.  C arrays are       *)
(* modelled as functions over 1..n: slot k of the model is C index k-1.    *)
(* C strings are sequences of one-character strings (without the closing   *)
(* NUL); payloads are sequences of byte values.                            *)
(***************************************************************************)
EXTENDS Integers, Sequences, FiniteSets, TLC

(* ------------------------------------------------------------------ *)
(* Bounds of the exploration                                          *)
(* ------------------------------------------------------------------ *)

\* Largest number of replies the modelled transport delivers to one request.
MaxReplies == 2

\* Number of get/set requests issued in one behaviour.
MaxRequests == 2

\* Number of answer objects the interpreter keeps alive at once.
MaxLive == 1

\* Largest number of arguments in the dimension list of xpa_array.
MaxDimArgs == 2

(* ------------------------------------------------------------------ *)
(* Program constants                                                  *)
(* ------------------------------------------------------------------ *)

\* #define NMAX 100: size of the static arrays and the recipient limit
\* handed to XPAGet / XPASet.
NMAX == 100

\* "By default, nmax=1" of the documentation of xpa_get / xpa_set.
DefaultNmax == 1

NULL == 0

Min(a, b) == IF a <= b THEN a ELSE b

\* The slots of the static arrays that the exploration can touch.
NSlots == Min(NMAX, MaxReplies)

Slots == 1..NSlots

(* ------------------------------------------------------------------ *)
(* Yorick type identifiers (yapi.h), in their numerical order         *)
(* ------------------------------------------------------------------ *)

YTypes ==
    << "Y_CHAR", "Y_SHORT", "Y_INT", "Y_LONG", "Y_FLOAT", "Y_DOUBLE",
       "Y_COMPLEX", "Y_STRING", "Y_POINTER", "Y_STRUCT", "Y_RANGE",
       "Y_LVALUE", "Y_VOID" >>

TypeId(name) == CHOOSE k \in 1..Len(YTypes) : YTypes[k] = name

Y_CHAR == TypeId("Y_CHAR")

Y_SHORT == TypeId("Y_SHORT")

Y_INT == TypeId("Y_INT")

Y_LONG == TypeId("Y_LONG")

Y_FLOAT == TypeId("Y_FLOAT")

Y_DOUBLE == TypeId("Y_DOUBLE")

Y_COMPLEX == TypeId("Y_COMPLEX")

Y_STRING == TypeId("Y_STRING")

Y_VOID == TypeId("Y_VOID")

IS_INTEGER(id) == Y_CHAR <= id /\ id <= Y_LONG

IS_NUMBER(id) == Y_CHAR <= id /\ id <= Y_COMPLEX

IS_VOID(id) == id = Y_VOID

IS_STRING(id) == id = Y_STRING

(* ------------------------------------------------------------------ *)
(* C strings                                                          *)
(* ------------------------------------------------------------------ *)

NUL == "\\0"

\* The character at 1-based position k of a NUL-terminated string.
CharAt(str, k) == IF k <= Len(str) THEN str[k] ELSE NUL

\* strncmp(a, b, n) == 0: compare at most n characters, stopping at the
\* first difference or at the common terminating NUL.
RECURSIVE StrncmpEq(_, _, _, _)
StrncmpEq(a, b, n, k) ==
    IF k > n THEN TRUE
    ELSE IF CharAt(a, k) # CharAt(b, k) THEN FALSE
    ELSE IF CharAt(a, k) = NUL THEN TRUE
    ELSE StrncmpEq(a, b, n, k + 1)

TagError == << "X", "P", "A", "$", "E", "R", "R", "O", "R" >>

TagMessage == << "X", "P", "A", "$", "M", "E", "S", "S", "A", "G", "E" >>

\* Variant of IS_ERROR: one character too few compared.
IS_ERROR_short(str) == StrncmpEq(str, TagError, 8, 1)

IS_ERROR(str) == StrncmpEq(str, TagError, 9, 1)

IS_MESSAGE(str) == StrncmpEq(str, TagMessage, 11, 1)

\* strlen: the number of characters before the first NUL.
Strlen(str) == Len(str)

(* ------------------------------------------------------------------ *)
(* State                                                              *)
(* ------------------------------------------------------------------ *)

VARIABLES
    client,         \* static XPA client: NULL or the open handle
    atexit_called,  \* atexit(disconnect) has been called?
    lens,           \* static size_t lens[NMAX]
    bufs,           \* static char* bufs[NMAX]
    srvs,           \* static char* srvs[NMAX]
    msgs,           \* static char* msgs[NMAX]
    replies,        \* static int replies
    heap,           \* malloc'ed blocks: heap[p] = [data, frees]
    objs,           \* the xpadata_t objects pushed so far, in creation order
    meta,           \* per object: alive?, the request that made it and what
                    \* the transport delivered to it, scan counts
    nreq,           \* number of requests issued so far
    last            \* outcome of the most recent operation

vars ==
    << client, atexit_called, lens, bufs, srvs, msgs, replies, heap,
       objs, meta, nreq, last >>

\* The static arrays and the heap, as one value threaded through the steps
\* of a request.
Statics ==
    [ lens |-> lens, bufs |-> bufs, srvs |-> srvs, msgs |-> msgs,
      replies |-> replies, heap |-> heap ]

(* ------------------------------------------------------------------ *)
(* Heap                                                               *)
(* ------------------------------------------------------------------ *)

\* malloc + fill: the new block is appended, its address is its index.
Malloc(h, data) == Append(h, [data |-> data, frees |-> 0])

\* free(p): the block's contents are gone; frees counts the calls.
Free(h, p) ==
    IF p = NULL THEN h
    ELSE [h EXCEPT ![p] = [data |-> << >>, frees |-> @.frees + 1]]

(* ------------------------------------------------------------------ *)
(* The transport (XPA library), seen from its call sites              *)
(* ------------------------------------------------------------------ *)

Absent == [present |-> FALSE, data |-> << >>]

Present(d) == [present |-> TRUE, data |-> d]

MsgError == TagError \o << " ", "n", "o" >>

\* A second error, to tell the order of the errors of an answer.
MsgDenied == TagError \o << " ", "x" >>

MsgNormal == TagMessage \o << " ", "o", "k" >>

\* Starts like the error tag but is one character short of it.
MsgOther == << "X", "P", "A", "$", "E", "R", "R", "O" >>

SrvName == << "d", "s", "9" >>

\* What one recipient may answer to a get request: an error and no data
\* (two different ones), data and no message, an untagged message with an
\* empty buffer.
GetReplies ==
    { [msg |-> Present(MsgError), srv |-> Present(SrvName), buf |-> Absent],
      [msg |-> Present(MsgDenied), srv |-> Present(SrvName), buf |-> Absent],
      [msg |-> Absent,            srv |-> Present(SrvName), buf |-> Present(<< 65, 10 >>)],
      [msg |-> Present(MsgOther), srv |-> Absent,           buf |-> Present(<< >>)] }

\* What one recipient may answer to a set request (no inbound payload).
SetReplies ==
    { [msg |-> Present(MsgNormal), srv |-> Present(SrvName)],
      [msg |-> Absent,             srv |-> Present(SrvName)] }

\* Sequences of at most NSlots replies.
ReplySeqs(R) == UNION { [1..n -> R] : n \in 0..NSlots }

\* Store an optional value in a fresh block; yields [heap, ptr].
Store(h, opt) ==
    IF opt.present
    THEN [heap |-> Malloc(h, opt.data), ptr |-> Len(h) + 1]
    ELSE [heap |-> h, ptr |-> NULL]

\* XPAGet filling slot k with reply r.
GetFill(S, k, r) ==
    LET b == Store(S.heap, r.buf)
        s == Store(b.heap, r.srv)
        m == Store(s.heap, r.msg)
    IN  [S EXCEPT !.heap = m.heap,
                  !.lens[k] = Len(r.buf.data),
                  !.bufs[k] = b.ptr,
                  !.srvs[k] = s.ptr,
                  !.msgs[k] = m.ptr]

\* XPASet filling slot k with reply r: bufs and lens are not passed to it.
SetFill(S, k, r) ==
    LET s == Store(S.heap, r.srv)
        m == Store(s.heap, r.msg)
    IN  [S EXCEPT !.heap = m.heap,
                  !.srvs[k] = s.ptr,
                  !.msgs[k] = m.ptr]

RECURSIVE GetFillAll(_, _, _)
GetFillAll(S, rs, k) ==
    IF k > Len(rs) THEN S ELSE GetFillAll(GetFill(S, k, rs[k]), rs, k + 1)

RECURSIVE SetFillAll(_, _, _)
SetFillAll(S, rs, k) ==
    IF k > Len(rs) THEN S ELSE SetFillAll(SetFill(S, k, rs[k]), rs, k + 1)

Zeros == [k \in Slots |-> 0]

\* replies = XPAGet(client, apt, cmd, NULL, bufs, lens, srvs, msgs, NMAX).
\* The library either fails before touching the arrays (-1), or zeroes the
\* four arrays and fills one slot per reply.
XPAGet(S, failed, rs) ==
    IF failed THEN [S EXCEPT !.replies = -1]
    ELSE [GetFillAll([S EXCEPT !.lens = Zeros, !.bufs = Zeros,
                               !.srvs = Zeros, !.msgs = Zeros], rs, 1)
            EXCEPT !.replies = Len(rs)]

\* replies = XPASet(client, apt, cmd, NULL, buf, len, srvs, msgs, NMAX).
XPASet(S, failed, rs) ==
    IF failed THEN [S EXCEPT !.replies = -1]
    ELSE [SetFillAll([S EXCEPT !.srvs = Zeros, !.msgs = Zeros], rs, 1)
            EXCEPT !.replies = Len(rs)]

(* ------------------------------------------------------------------ *)
(* Persistent connection                                              *)
(* ------------------------------------------------------------------ *)

Handle == 1

\* connect(): yields the new client and atexit_called and the y_error
\* message, if any ("" when connect returns normally).
connect(cl, ax, openOK, atexitOK) ==
    IF cl = NULL
    THEN IF ~openOK
         THEN [client |-> NULL, atexit_called |-> ax,
               error |-> "failed to open XPA persistent connection"]
         ELSE IF ax = 0
              THEN IF ~atexitOK
                   THEN [client |-> Handle, atexit_called |-> ax,
                         error |-> "atexit() failed"]
                   ELSE [client |-> Handle, atexit_called |-> 1, error |-> ""]
              ELSE [client |-> Handle, atexit_called |-> ax, error |-> ""]
    ELSE [client |-> cl, atexit_called |-> ax, error |-> ""]

\* disconnect(): yields the new client and the handle passed to XPAClose
\* (NULL when XPAClose is not called).
disconnect(cl) ==
    IF cl # NULL
    THEN [client |-> NULL, closed |-> cl]
    ELSE [client |-> cl, closed |-> NULL]

(* ------------------------------------------------------------------ *)
(* Static arrays: reset and transfer into an object                   *)
(* ------------------------------------------------------------------ *)

\* One turn of the while loop of clear_static_arrays (replies > 0).
ClearSlot(S) ==
    LET i == S.replies
        h1 == Free(S.heap, S.bufs[i])
        h2 == Free(h1, S.srvs[i])
        h3 == Free(h2, S.msgs[i])
    IN  [S EXCEPT !.bufs[i] = NULL, !.msgs[i] = NULL, !.srvs[i] = NULL,
                  !.heap = h3, !.replies = i - 1]

RECURSIVE ClearLoop(_)
ClearLoop(S) == IF S.replies > 0 THEN ClearLoop(ClearSlot(S)) ELSE S

\* A reset that forgets the held count and leaves the slots as they are.
clear_static_arrays_skip(S) == [S EXCEPT !.replies = 0]

\* clear_static_arrays(), past the p_signalling test.
clear_static_arrays(S) ==
    LET T == ClearLoop(S)
    IN  IF T.replies < 0 THEN [T EXCEPT !.replies = 0] ELSE T

\* The statements of one turn of that loop: 1-3 read bufs[i], srvs[i] and
\* msgs[i] into locals, 4-6 null bufs[i], msgs[i] and srvs[i], 7-9 free the
\* three locals, 10 sets replies = i.
ClearTurn == 10

\* The first k statements (k < ClearTurn) of one turn of the loop, after
\* which the call is left and its locals are lost.
ClearPartial(S, k) ==
    LET i == S.replies
        h1 == IF k >= 7 THEN Free(S.heap, S.bufs[i]) ELSE S.heap
        h2 == IF k >= 8 THEN Free(h1, S.srvs[i]) ELSE h1
        h3 == IF k >= 9 THEN Free(h2, S.msgs[i]) ELSE h2
    IN  [S EXCEPT !.bufs[i] = IF k >= 4 THEN NULL ELSE @,
                  !.msgs[i] = IF k >= 5 THEN NULL ELSE @,
                  !.srvs[i] = IF k >= 6 THEN NULL ELSE @,
                  !.heap = h3]

\* The first pc statements of the loop of clear_static_arrays.
RECURSIVE ClearRun(_, _)
ClearRun(S, pc) ==
    IF S.replies <= 0 THEN S
    ELSE IF pc >= ClearTurn THEN ClearRun(ClearSlot(S), pc - ClearTurn)
    ELSE ClearPartial(S, pc)

\* The object as ypush_obj returns it (zero-filled, n slots per array) and
\* as the statements before the loop of push_xpadata set it.
NewObj(n) ==
    [ lens |-> [k \in 1..n |-> 0], bufs |-> [k \in 1..n |-> NULL],
      srvs |-> [k \in 1..n |-> NULL], msgs |-> [k \in 1..n |-> NULL],
      replies |-> 0, buffers |-> -1, messages |-> -1, errors |-> -1 ]

\* One turn of the transfer loop of push_xpadata, for slot i (C index i-1).
\* P is [S, obj].
\* Variants of the loop body: the static slots not nulled; the reply count
\* of the object not incremented.
PushSlot_keep(P, i) ==
    [ S |-> P.S,
      obj |-> [P.obj EXCEPT !.lens[i] = P.S.lens[i], !.bufs[i] = P.S.bufs[i],
                            !.srvs[i] = P.S.srvs[i], !.msgs[i] = P.S.msgs[i],
                            !.replies = @ + 1] ]

PushSlot_nocount(P, i) ==
    [ S |-> [P.S EXCEPT !.bufs[i] = NULL, !.msgs[i] = NULL, !.srvs[i] = NULL],
      obj |-> [P.obj EXCEPT !.lens[i] = P.S.lens[i], !.bufs[i] = P.S.bufs[i],
                            !.srvs[i] = P.S.srvs[i], !.msgs[i] = P.S.msgs[i]] ]

PushSlot(P, i) ==
    [ S |-> [P.S EXCEPT !.bufs[i] = NULL, !.msgs[i] = NULL, !.srvs[i] = NULL],
      obj |-> [P.obj EXCEPT !.lens[i] = P.S.lens[i], !.bufs[i] = P.S.bufs[i],
                            !.srvs[i] = P.S.srvs[i], !.msgs[i] = P.S.msgs[i],
                            !.replies = @ + 1] ]

RECURSIVE PushLoop(_, _)
PushLoop(P, i) == IF i > P.S.replies THEN P ELSE PushLoop(PushSlot(P, i), i + 1)

\* The statements of one turn of the transfer loop: 1-4 copy lens[i],
\* bufs[i], srvs[i] and msgs[i] into the object, 5-7 null bufs[i], msgs[i]
\* and srvs[i], 8 increments obj->replies.
PushTurn == 8

\* The first k statements (k < PushTurn) of the turn for slot i.
PushPartial(P, i, k) ==
    [ S |-> [P.S EXCEPT !.bufs[i] = IF k >= 5 THEN NULL ELSE @,
                        !.msgs[i] = IF k >= 6 THEN NULL ELSE @,
                        !.srvs[i] = IF k >= 7 THEN NULL ELSE @],
      obj |-> [P.obj EXCEPT !.lens[i] = IF k >= 1 THEN P.S.lens[i] ELSE @,
                            !.bufs[i] = IF k >= 2 THEN P.S.bufs[i] ELSE @,
                            !.srvs[i] = IF k >= 3 THEN P.S.srvs[i] ELSE @,
                            !.msgs[i] = IF k >= 4 THEN P.S.msgs[i] ELSE @] ]

\* The first pc statements of the transfer loop, from slot i on.
RECURSIVE PushRun(_, _, _)
PushRun(P, i, pc) ==
    IF i > P.S.replies THEN P
    ELSE IF pc >= PushTurn THEN PushRun(PushSlot(P, i), i + 1, pc - PushTurn)
    ELSE PushPartial(P, i, pc)

\* A transfer that does not reset the held count at its end.
push_xpadata_held(S) ==
    LET n == IF S.replies < 0 THEN 0 ELSE S.replies
        P == PushLoop([S |-> [S EXCEPT !.replies = n], obj |-> NewObj(n)], 1)
    IN  [ S |-> P.S, obj |-> P.obj ]

\* push_xpadata(), past the p_signalling test: yields [S, obj].
push_xpadata(S) ==
    LET n == IF S.replies < 0 THEN 0 ELSE S.replies
        P == PushLoop([S |-> [S EXCEPT !.replies = n], obj |-> NewObj(n)], 1)
    IN  [ S |-> [P.S EXCEPT !.replies = 0], obj |-> P.obj ]

(* ------------------------------------------------------------------ *)
(* Lazily counted members of the object                               *)
(* ------------------------------------------------------------------ *)

\* The loops of get_buffers / get_errors / get_messages, from slot i on.
RECURSIVE ScanBuffers(_, _, _)
ScanBuffers(obj, i, n) ==
    IF i > obj.replies THEN n
    ELSE ScanBuffers(obj, i + 1, IF obj.bufs[i] # NULL THEN n + 1 ELSE n)

RECURSIVE ScanErrors(_, _, _, _)
ScanErrors(obj, h, i, n) ==
    IF i > obj.replies THEN n
    ELSE ScanErrors(obj, h, i + 1,
             IF obj.msgs[i] # NULL /\ IS_ERROR(h[obj.msgs[i]].data)
             THEN n + 1 ELSE n)

RECURSIVE ScanMessages(_, _, _, _)
ScanMessages(obj, h, i, n) ==
    IF i > obj.replies THEN n
    ELSE ScanMessages(obj, h, i + 1,
             IF obj.msgs[i] # NULL /\ IS_MESSAGE(h[obj.msgs[i]].data)
             THEN n + 1 ELSE n)

\* Each getter yields the object after the call, the value returned and
\* the number of scans of the records it made (0 or 1).
get_buffers(obj, h) ==
    IF obj.buffers < 0
    THEN LET n == ScanBuffers(obj, 1, 0)
         IN  [obj |-> [obj EXCEPT !.buffers = n], val |-> n, scans |-> 1]
    ELSE [obj |-> obj, val |-> obj.buffers, scans |-> 0]

\* Variants of get_errors: the count of 0 taken for "not yet counted";
\* the test of get_messages pasted in.
get_errors_rescan(obj, h) ==
    IF obj.errors <= 0
    THEN LET n == ScanErrors(obj, h, 1, 0)
         IN  [obj |-> [obj EXCEPT !.errors = n], val |-> n, scans |-> 1]
    ELSE [obj |-> obj, val |-> obj.errors, scans |-> 0]

get_errors_pasted(obj, h) ==
    IF obj.errors < 0
    THEN LET n == ScanMessages(obj, h, 1, 0)
         IN  [obj |-> [obj EXCEPT !.errors = n], val |-> n, scans |-> 1]
    ELSE [obj |-> obj, val |-> obj.errors, scans |-> 0]

get_errors(obj, h) ==
    IF obj.errors < 0
    THEN LET n == ScanErrors(obj, h, 1, 0)
         IN  [obj |-> [obj EXCEPT !.errors = n], val |-> n, scans |-> 1]
    ELSE [obj |-> obj, val |-> obj.errors, scans |-> 0]

\* Variant of get_messages: the count stored in the wrong member.
get_messages_clobber(obj, h) ==
    IF obj.messages < 0
    THEN LET n == ScanMessages(obj, h, 1, 0)
         IN  [obj |-> [obj EXCEPT !.errors = n], val |-> n, scans |-> 1]
    ELSE [obj |-> obj, val |-> obj.messages, scans |-> 0]

get_messages(obj, h) ==
    IF obj.messages < 0
    THEN LET n == ScanMessages(obj, h, 1, 0)
         IN  [obj |-> [obj EXCEPT !.messages = n], val |-> n, scans |-> 1]
    ELSE [obj |-> obj, val |-> obj.messages, scans |-> 0]

\* free_xpadata: the heap after the object's destructor ran.
RECURSIVE free_xpadata(_, _, _)
free_xpadata(obj, h, i) ==
    IF i > obj.replies THEN h
    ELSE free_xpadata(obj,
             Free(Free(Free(h, obj.bufs[i]), obj.srvs[i]), obj.msgs[i]),
             i + 1)

(* ------------------------------------------------------------------ *)
(* Values on the interpreter's stack                                  *)
(* ------------------------------------------------------------------ *)

NoArr == [id |-> "none", type |-> Y_VOID, ntot |-> 0, bytes |-> << >>]

Void == [type |-> Y_VOID, rank |-> -1, v |-> 0, arr |-> NoArr]

Long(v) == [type |-> Y_LONG, rank |-> 0, v |-> v, arr |-> NoArr]

Double(v) == [type |-> Y_DOUBLE, rank |-> 0, v |-> v, arr |-> NoArr]

String(v) == [type |-> Y_STRING, rank |-> 0, v |-> v, arr |-> NoArr]

\* An array of ntot elements of the given type, all its bytes set to fill.
Array(id, tname, ntot, nbytes, fill) ==
    [ type |-> TypeId(tname), rank |-> 1, v |-> 0,
      arr |-> [id |-> id, type |-> TypeId(tname), ntot |-> ntot,
               bytes |-> [k \in 1..nbytes |-> fill]] ]

\* sizeof of the element types of the switch of eval_xpadata (LP64).
ElemSize(typeid) ==
    CASE typeid = Y_CHAR -> 1
      [] typeid = Y_SHORT -> 2
      [] typeid = Y_INT -> 4
      [] typeid = Y_LONG -> 8
      [] typeid = Y_FLOAT -> 4
      [] typeid = Y_DOUBLE -> 8
      [] typeid = Y_COMPLEX -> 16
      [] OTHER -> 0

\* Results: what the call leaves on top of the stack, or how it ended.
\* arr is the key array after the call (NoArr when the key is no array).
Res(kind, val, arr) == [kind |-> kind, val |-> val, arr |-> arr]

Err(msg, arr) == Res("error", msg, arr)

\* A push_string that refuses a null pointer.
push_string_nonull(h, str, len, arr) ==
    IF str = NULL THEN Err("invalid string length", arr)
    ELSE Res("string", Present(SubSeq(h[str].data, 1,
                 IF len = -1 THEN Strlen(h[str].data) ELSE len)), arr)

\* push_string(str, len): str is a pointer into h.  With len = -1 the
\* whole C string is pushed; otherwise its first len bytes.
push_string(h, str, len, arr) ==
    LET n == IF len = -1
             THEN (IF str = NULL THEN 0 ELSE Strlen(h[str].data))
             ELSE len
    IN  IF len # -1 /\ (len < 0 \/ (str = NULL /\ len # 0))
        THEN Err("invalid string length", arr)
        ELSE IF str = NULL
             THEN Res("string", Absent, arr)
             ELSE Res("string", Present(SubSeq(h[str].data, 1, n)), arr)

(* ------------------------------------------------------------------ *)
(* eval_xpadata                                                       *)
(* ------------------------------------------------------------------ *)

\* What a read through a null pointer (undefined behaviour) may do: fault,
\* or deliver whatever bytes happen to be there.
Undefined == {"fault", "junk"}

\* memcpy(dst, buf, len) into a fresh or caller-owned byte area of the same
\* size: the contents of dst afterwards, or a crash.  Reading through
\* buf = NULL with len > 0 is undefined behaviour, resolved by ub.
Memcpy(h, buf, len, ub) ==
    IF len = 0 THEN [crash |-> FALSE, bytes |-> << >>]
    ELSE IF buf = NULL
         THEN IF ub = "fault"
              THEN [crash |-> TRUE, bytes |-> << >>]
              ELSE [crash |-> FALSE, bytes |-> [k \in 1..len |-> 255]]
         ELSE [crash |-> FALSE, bytes |-> SubSeq(h[buf].data, 1, len)]

\* The index of the first argument, resolved as lines 232-239 do: yields
\* the 1-based slot, or 0 when it is out of range.
\* Variant of the index resolution: no relative indexing.
ResolveIndex_nowrap(i, n) ==
    IF i < 1 \/ i > n THEN 0 ELSE i

ResolveIndex(i, n) ==
    LET r == IF i <= 0 THEN i + n ELSE i
    IN  IF r < 1 \/ r > n THEN 0 ELSE r

\* A classification that takes every message without the tag of a normal
\* message for an error.
Classify_any(obj, h, i) ==
    IF obj.msgs[i] # NULL
    THEN IF IS_MESSAGE(h[obj.msgs[i]].data) THEN 1 ELSE 2
    ELSE 0

\* Key 0: whether there is a message, and of which kind.
Classify(obj, h, i) ==
    IF obj.msgs[i] # NULL
    THEN IF IS_MESSAGE(h[obj.msgs[i]].data) THEN 1
         ELSE IF IS_ERROR(h[obj.msgs[i]].data) THEN 2
         ELSE 0
    ELSE 0

\* Second argument an array of numbers: size check, then memcpy into it.
EvalArray(obj, h, i, key, ub) ==
    LET len == obj.lens[i]
        buf == obj.bufs[i]
        size == IF key.arr.type = Y_COMPLEX
                THEN 2 * key.arr.ntot * ElemSize(Y_DOUBLE)
                ELSE key.arr.ntot * ElemSize(key.arr.type)
        c == Memcpy(h, buf, len, ub)
    IN  IF len # size
        THEN Err("invalid array size", key.arr)
        ELSE IF c.crash THEN Res("crash", "SIGSEGV", key.arr)
        ELSE Res("array", key.arr.id, [key.arr EXCEPT !.bytes = c.bytes])

\* Second argument an integer scalar k.
EvalKey(obj, h, i, k, ub) ==
    CASE k = 0 -> Res("int", Classify(obj, h, i), NoArr)
      [] k = 1 -> push_string(h, obj.msgs[i], -1, NoArr)
      [] k = 2 -> push_string(h, obj.srvs[i], -1, NoArr)
      [] k = 3 -> IF obj.lens[i] > 0
                  THEN LET c == Memcpy(h, obj.bufs[i], obj.lens[i], ub)
                       IN  IF c.crash THEN Res("crash", "SIGSEGV", NoArr)
                           ELSE Res("bytes", c.bytes, NoArr)
                  ELSE Res("nil", 0, NoArr)
      [] k = 4 -> push_string(h, obj.bufs[i], obj.lens[i], NoArr)
      [] OTHER -> Err("invalid key value", NoArr)

\* eval_xpadata(obj, argc) with the arguments args[1..argc] in call order;
\* ub resolves undefined behaviour where the call runs into it.
eval_xpadata(obj, h, args, ub) ==
    LET argc == Len(args) IN
    IF argc < 1 \/ argc > 2
    THEN Err("expecting 1 or 2 arguments", NoArr)
    ELSE
    LET a1 == args[1]
        karr == IF argc = 2 THEN args[2].arr ELSE NoArr
    IN
    IF IS_VOID(a1.type) /\ argc = 1
    THEN Res("long", obj.replies, NoArr)
    ELSE IF ~IS_INTEGER(a1.type) \/ a1.rank # 0
    THEN Err("expecting an index", karr)
    ELSE
    LET i == ResolveIndex(a1.v, obj.replies) IN
    IF i = 0
    THEN Err("out of range index", karr)
    ELSE IF argc = 1
    THEN push_string(h, obj.msgs[i], -1, NoArr)
    ELSE
    LET key == args[2] IN
    IF key.type = Y_VOID
    THEN Res("long", obj.lens[i], NoArr)
    ELSE IF key.rank = 0 /\ IS_INTEGER(key.type) /\ key.v \in 0..4
    THEN EvalKey(obj, h, i, key.v, ub)
    ELSE IF key.rank > 0 /\ IS_NUMBER(key.type)
    THEN EvalArray(obj, h, i, key, ub)
    ELSE Err("invalid key value", karr)

\* extract_xpadata(obj, name): [obj, res, scans] with scans the number of
\* scans per member made by the call.
NoScans == [buffers |-> 0, errors |-> 0, messages |-> 0]

extract_xpadata(obj, h, name) ==
    CASE name = "replies" ->
           [obj |-> obj, res |-> Res("long", obj.replies, NoArr), scans |-> NoScans]
      [] name = "buffers" ->
           LET g == get_buffers(obj, h)
           IN  [obj |-> g.obj, res |-> Res("long", g.val, NoArr),
                scans |-> [NoScans EXCEPT !.buffers = g.scans]]
      [] name = "errors" ->
           LET g == get_errors(obj, h)
           IN  [obj |-> g.obj, res |-> Res("long", g.val, NoArr),
                scans |-> [NoScans EXCEPT !.errors = g.scans]]
      [] name = "messages" ->
           LET g == get_messages(obj, h)
           IN  [obj |-> g.obj, res |-> Res("long", g.val, NoArr),
                scans |-> [NoScans EXCEPT !.messages = g.scans]]
      [] OTHER ->
           [obj |-> obj, res |-> Err("bad XPAData member", NoArr), scans |-> NoScans]

\* print_xpadata(obj): the four numbers of the summary line.
print_xpadata(obj, h) ==
    LET b == get_buffers(obj, h)
        e == get_errors(b.obj, h)
        m == get_messages(e.obj, h)
    IN  [ obj |-> m.obj,
          res |-> Res("print", << obj.replies, b.val, m.val, e.val >>, NoArr),
          scans |-> [buffers |-> b.scans, errors |-> e.scans, messages |-> m.scans] ]

(* ------------------------------------------------------------------ *)
(* Interpreted functions on an answer                                 *)
(* ------------------------------------------------------------------ *)

\* strpart(str, 11:): the characters of str from the 11th on.
Strpart11(str) == SubSeq(str, 11, Len(str))

\* The separator of the messages joined by xpa_check.
Separator == << ";", " " >>

\* The loop of xpa_check over the replies i..n: errors is the number of
\* messages still to take, msg what has been collected (optional string).
RECURSIVE CheckLoop(_, _, _, _, _, _)
CheckLoop(obj, h, i, n, errors, msg) ==
    IF i > n THEN msg
    ELSE IF eval_xpadata(obj, h, << Long(i), Long(0) >>, "fault").val = 2
         THEN LET str == Strpart11(eval_xpadata(obj, h, << Long(i), Long(1) >>,
                                                "fault").val.data)
                  m == IF ~msg.present THEN Present(str)
                       ELSE Present(msg.data \o Separator \o str)
              IN  IF errors - 1 <= 0 THEN m
                  ELSE CheckLoop(obj, h, i + 1, n, errors - 1, m)
         ELSE CheckLoop(obj, h, i + 1, n, errors, msg)

\* Variant of xpa_check that takes every error whatever onlyfirst says.
xpa_check_all(obj, h, onlyfirst, sub) ==
    LET e == extract_xpadata(obj, h, "errors")
        msg == CheckLoop(e.obj, h, 1, e.obj.replies, e.res.val, Absent)
    IN  [ obj |-> e.obj, scans |-> e.scans,
          res |-> IF e.res.val > 0
                  THEN Res(IF sub THEN "raised" ELSE "string", msg, NoArr)
                  ELSE Res("nil", 0, NoArr) ]

\* xpa_check(ans, onlyfirst=): sub tells whether it is called as a
\* subroutine.  Yields [obj, res, scans]; the result is nil, the returned
\* string, or the message of the error raised.
xpa_check(obj, h, onlyfirst, sub) ==
    LET e == extract_xpadata(obj, h, "errors")
        errors == IF onlyfirst /\ e.res.val > 1 THEN 1 ELSE e.res.val
        msg == CheckLoop(e.obj, h, 1, e.obj.replies, errors, Absent)
    IN  [ obj |-> e.obj, scans |-> e.scans,
          res |-> IF e.res.val > 0
                  THEN Res(IF sub THEN "raised" ELSE "string", msg, NoArr)
                  ELSE Res("nil", 0, NoArr) ]

\* buf(where(buf == '\n')) = '\0': newlines become string terminators.
NewlinesToNul(bytes) == [k \in 1..Len(bytes) |-> IF bytes[k] = 10 THEN 0 ELSE bytes[k]]

\* strchar(buf): the strings held by a byte array, each ended by a 0 byte,
\* or by the end of the array for the last one.
RECURSIVE Strchar(_, _)
Strchar(bytes, cur) ==
    IF bytes = << >>
    THEN (IF cur = << >> THEN << >> ELSE << cur >>)
    ELSE IF Head(bytes) = 0
         THEN << cur >> \o Strchar(Tail(bytes), << >>)
         ELSE Strchar(Tail(bytes), Append(cur, Head(bytes)))

\* What write does with format "%s\n" when it is given a number: it
\* converts it, or it refuses it with an error.
WriteOutcomes == {"converted", "mismatch"}

\* The first loop of xpa_list: the values passed to write, format="%s\n",
\* one for each reply i..n with ans(i,0) == 2; the value is ans(i,).
RECURSIVE ListReport(_, _, _, _)
ListReport(obj, h, i, n) ==
    IF i > n THEN << >>
    ELSE IF eval_xpadata(obj, h, << Long(i), Long(0) >>, "fault").val = 2
         THEN << eval_xpadata(obj, h, << Long(i), Void >>, "fault") >>
                 \o ListReport(obj, h, i + 1, n)
         ELSE ListReport(obj, h, i + 1, n)

\* The second loop of xpa_list: the lines of the buffers of replies i..n,
\* or a crash when ans(i,3) faults.
RECURSIVE ListGrow(_, _, _, _, _, _)
ListGrow(obj, h, i, n, ub, lst) ==
    IF i > n THEN Res("list", lst, NoArr)
    ELSE LET buf == eval_xpadata(obj, h, << Long(i), Long(3) >>, ub)
         IN  IF buf.kind = "crash" THEN buf
             ELSE IF buf.kind = "nil" THEN ListGrow(obj, h, i + 1, n, ub, lst)
             ELSE ListGrow(obj, h, i + 1, n, ub,
                           lst \o Strchar(NewlinesToNul(buf.val), << >>))

\* The body of xpa_list after ans = xpa_get("xpans"), on that answer.
\* Yields [obj, res, scans]; the result tells what was written and either
\* the error raised or the list (returned, or written as a subroutine).
xpa_list(obj, h, sub, ub, wr) ==
    LET n == extract_xpadata(obj, h, "replies").res.val
        e == extract_xpadata(obj, h, "errors")
        b == extract_xpadata(e.obj, h, "buffers")
        report == ListReport(e.obj, h, 1, n)
        lst == IF b.res.val > 0 THEN ListGrow(b.obj, h, 1, n, ub, << >>)
               ELSE Res("list", << >>, NoArr)
    IN  IF e.res.val > 0
        THEN [ obj |-> e.obj, scans |-> e.scans,
               res |-> IF wr = "mismatch"
                       THEN Res("list_error", [written |-> << >>,
                                msg |-> "write: format/argument mismatch"], NoArr)
                       ELSE Res("list_error", [written |-> report,
                                msg |-> "there are errors in XPA answers"], NoArr) ]
        ELSE [ obj |-> b.obj,
               scans |-> [e.scans EXCEPT !.buffers = b.scans.buffers],
               res |-> IF lst.kind = "crash" THEN lst
                       ELSE IF sub THEN Res("list_written", lst.val, NoArr)
                       ELSE lst ]

\* Arguments of the dimension list of xpa_array: a scalar, a vector, nil.
DimScalar(tname, v) == [type |-> TypeId(tname), rank |-> 0, elems |-> << v >>]

DimVector(es) == [type |-> Y_LONG, rank |-> 1, elems |-> es]

DimVoid == [type |-> Y_VOID, rank |-> -1, elems |-> << >>]

\* The while (more_args()) loop of xpa_array: the extents collected after
\* the leading element of dims, and whether an argument was malformed.
RECURSIVE BuildDims(_, _)
BuildDims(args, dims) ==
    IF args = << >> THEN [err |-> FALSE, dims |-> dims]
    ELSE LET arg == Head(args)
         IN  IF IS_INTEGER(arg.type)
             THEN IF arg.rank = 0
                  THEN BuildDims(Tail(args), dims \o arg.elems)
                  ELSE IF arg.rank = 1 /\ Len(arg.elems) = arg.elems[1] + 1
                       THEN BuildDims(Tail(args), dims \o Tail(arg.elems))
                       ELSE [err |-> TRUE, dims |-> dims]
             ELSE IF ~IS_VOID(arg.type)
                  THEN [err |-> TRUE, dims |-> dims]
                  ELSE BuildDims(Tail(args), dims)

\* The product of the extents.
RECURSIVE Product(_)
Product(dims) == IF dims = << >> THEN 1 ELSE Head(dims) * Product(Tail(dims))

\* array(type, dims) for the extents collected: a scalar zero of the type
\* when there is none (dims = [0]), else a zero-filled array.
ArrayOf(tname, dims) ==
    IF dims = << >>
    THEN [type |-> TypeId(tname), rank |-> 0, v |-> 0, arr |-> NoArr]
    ELSE [ type |-> TypeId(tname), rank |-> Len(dims), v |-> 0,
           arr |-> [id |-> "new", type |-> TypeId(tname), ntot |-> Product(dims),
                    bytes |-> [k \in 1..(Product(dims) * ElemSize(TypeId(tname)))
                                  |-> 0]] ]

\* xpa_array(ans, i, type, dims...): the result of the call.
xpa_array(obj, h, i, tname, args, ub) ==
    LET d == BuildDims(args, << >>)
        err == d.err \/ \E k \in 1..Len(d.dims) : d.dims[k] < 1
    IN  IF err
        THEN Err("invalid dimension(s)", NoArr)
        ELSE eval_xpadata(obj, h, << IF IS_VOID(i.type) THEN Long(1) ELSE i,
                                     ArrayOf(tname, d.dims) >>, ub)

\* The interpreter's error when an operation (buf == '\n', buf(0)) is
\* applied to nil.
NilError == Err("unexpected nil operand", NoArr)

\* buf(0) = '\0' when buf(0) == '\n': the last byte, if a newline, becomes
\* a string terminator.
ChompLast(bytes) ==
    [k \in 1..Len(bytes) |->
        IF k = Len(bytes) /\ bytes[k] = 10 THEN 0 ELSE bytes[k]]

\* The element of a one-element set.
The(S) == CHOOSE x \in S : TRUE

\* _xpa_text past xpa_check, whose outcome is c: buf = ans(1,3), then the
\* multi and chomp branches, else ans(1,4).
TextOf(c, h, chomp, multi, ub) ==
    IF c.res.kind = "raised" THEN c.res
    ELSE IF multi \/ chomp
    THEN The({ IF buf.kind \in {"error", "crash"} THEN buf
               ELSE IF buf.kind = "nil" THEN NilError
               ELSE Res("strings",
                        Strchar(IF multi THEN NewlinesToNul(buf.val)
                                ELSE ChompLast(buf.val), << >>), NoArr)
               : buf \in { eval_xpadata(c.obj, h, << Long(1), Long(3) >>, ub) } })
    ELSE eval_xpadata(c.obj, h, << Long(1), Long(4) >>, ub)

\* _xpa_text(ans) with the keywords chomp and multi of xpa_text: yields
\* [obj, res, scans].
xpa_text(obj, h, chomp, multi, ub) ==
    The({ [ obj |-> c.obj, scans |-> c.scans,
            res |-> TextOf(c, h, chomp, multi, ub) ]
          : c \in { xpa_check(obj, h, FALSE, TRUE) } })

(* ------------------------------------------------------------------ *)
(* Inputs of the exploration                                          *)
(* ------------------------------------------------------------------ *)

\* Arguments of xpa_get / xpa_set: how many, whether the access point is a
\* scalar string, the types of the command and of the data.
CallArgs ==
    [ argc : 0..4, aptString : BOOLEAN,
      cmd : {"Y_STRING", "Y_VOID", "Y_LONG"},
      data : {"Y_CHAR", "Y_DOUBLE", "Y_STRING"} ]

\* Argument parsing of Y_xpaget: the y_error message, or "".
ParseGet(a) ==
    IF a.argc < 1 \/ a.argc > 2 THEN "expecting 1 or 2 arguments"
    ELSE IF ~a.aptString THEN "access point must be a string"
    ELSE IF a.argc >= 2 /\ a.cmd \notin {"Y_STRING", "Y_VOID"}
         THEN "command must be empty or a string"
    ELSE ""

\* Argument parsing of Y_xpaset.
ParseSet(a) ==
    IF a.argc < 1 \/ a.argc > 3 THEN "expecting 1, 2 or 3 arguments"
    ELSE IF ~a.aptString THEN "access point must be a string"
    ELSE IF a.argc >= 2 /\ a.cmd \notin {"Y_STRING", "Y_VOID"}
         THEN "command must be empty or a string"
    ELSE IF a.argc >= 3 /\ ~IS_NUMBER(TypeId(a.data))
         THEN "invalid array type"
    ELSE ""

\* Index arguments tried on an object.
Indices == -(NSlots + 1)..(NSlots + 1)

\* Second arguments tried on an object.
KeyArrays ==
    { Array("c1", "Y_CHAR", 1, 1, 0), Array("c2", "Y_CHAR", 2, 2, 0),
      Array("s1", "Y_SHORT", 1, 2, 0), Array("z1", "Y_COMPLEX", 1, 16, 0) }

Keys ==
    { Void, Double(0), String(<< "k" >>), Array("g1", "Y_STRING", 1, 8, 0) }
        \cup { Long(k) : k \in -1..5 } \cup KeyArrays

\* Argument lists handed to eval_xpadata.
ArgLists ==
    { << >>, << Void >>, << String(<< "x" >>) >>, << Double(1) >>,
      << Array("i1", "Y_LONG", 1, 8, 0) >>, << Void, Void >>,
      << Double(1), Array("c1", "Y_CHAR", 1, 1, 0) >>,
      << Long(1), Void, Void >> }
        \cup { << Long(i) >> : i \in Indices }
        \cup { << Long(i), k >> : i \in Indices, k \in Keys }

Members == {"replies", "buffers", "errors", "messages", "size"}

(* ------------------------------------------------------------------ *)
(* Initial state and operations                                       *)
(* ------------------------------------------------------------------ *)

NoRes == Res("none", 0, NoArr)

\* What the most recent call was (op, on which object), its result, and
\* the number of scans of the records it made for each counted member.
Called(op, o, res, sc) == [op |-> op, obj |-> o, res |-> res, scans |-> sc]

Outcome(op, o, res) == Called(op, o, res, NoScans)

Init ==
    /\ client = NULL
    /\ atexit_called = 0
    /\ lens = Zeros
    /\ bufs = Zeros
    /\ srvs = Zeros
    /\ msgs = Zeros
    /\ replies = 0
    /\ heap = << >>
    /\ objs = << >>
    /\ meta = << >>
    /\ nreq = 0
    /\ last = Outcome("init", 0, NoRes)

\* The interpreter is ready for the next call: the previous result has been
\* consumed and the process has not been killed by a fault.
Running == last.res.kind = "none"

SetStatics(S) ==
    /\ lens' = S.lens
    /\ bufs' = S.bufs
    /\ srvs' = S.srvs
    /\ msgs' = S.msgs
    /\ replies' = S.replies
    /\ heap' = S.heap

\* Arguments tried on xpa_array: the index, the element type, and up to
\* MaxDimArgs arguments of the dimension list.
ArrayIndices == { Void, Long(NSlots) }

ArrayTypes == {"Y_CHAR", "Y_SHORT", "Y_DOUBLE"}

DimArgs ==
    { DimScalar("Y_LONG", 0), DimScalar("Y_LONG", 1), DimScalar("Y_LONG", 2),
      DimScalar("Y_DOUBLE", 2), DimVoid,
      DimVector(<< 0 >>), DimVector(<< 1, 2 >>), DimVector(<< 2, 2 >>) }

DimLists == UNION { [1..n -> DimArgs] : n \in 0..MaxDimArgs }

\* A call that ends in y_error during argument parsing.
BadCall(op, msg) ==
    /\ last' = Outcome(op, 0, Err(msg, NoArr))
    /\ UNCHANGED << client, atexit_called, lens, bufs, srvs, msgs, replies,
                    heap, objs, meta, nreq >>

\* Variant of the request that goes on after connect() has failed.
Request_noconnect(op, c, sig, failed, rs) ==
    IF sig = "clear"
    THEN /\ client' = c.client
         /\ atexit_called' = c.atexit_called
         /\ last' = Outcome(op, 0, Res("abort", "clear_static_arrays", NoArr))
         /\ UNCHANGED << lens, bufs, srvs, msgs, replies, heap, objs, meta, nreq >>
    ELSE
    LET S1 == clear_static_arrays(Statics)
        S2 == IF op = "xpa_get" THEN XPAGet(S1, failed, rs)
                                ELSE XPASet(S1, failed, rs)
    IN  /\ client' = c.client
        /\ atexit_called' = c.atexit_called
        /\ nreq' = nreq + 1
        /\ IF sig = "push"
           THEN /\ SetStatics(S2)
                /\ last' = Outcome(op, 0, Res("abort", "push_xpadata", NoArr))
                /\ UNCHANGED << objs, meta >>
           ELSE LET P == push_xpadata(S2)
                IN  /\ SetStatics(P.S)
                    /\ objs' = Append(objs, P.obj)
                    /\ meta' = Append(meta,
                           [ live |-> TRUE, op |-> op, n |-> S2.replies,
                             req |-> nreq + 1, freed |-> 0,
                             allocs |-> (Len(heap) + 1)..Len(S2.heap),
                             scans |-> NoScans,
                             rs |-> IF failed THEN << >> ELSE rs ])
                    /\ last' = Outcome(op, Len(objs) + 1, Res("object", Len(objs) + 1, NoArr))

\* The common tail of Y_xpaget and Y_xpaset after argument parsing:
\* connect, clear_static_arrays, the transport call (XPAGet for xpa_get,
\* XPASet for xpa_set, failing or answering with the replies rs),
\* push_xpadata.  sig tells where a pending signal makes p_abort() end
\* the call.
Request(op, c, sig, failed, rs) ==
    IF c.error # ""
    THEN /\ client' = c.client
         /\ atexit_called' = c.atexit_called
         /\ last' = Outcome(op, 0, Err(c.error, NoArr))
         /\ UNCHANGED << lens, bufs, srvs, msgs, replies, heap, objs, meta, nreq >>
    ELSE IF sig = "clear"
    THEN /\ client' = c.client
         /\ atexit_called' = c.atexit_called
         /\ last' = Outcome(op, 0, Res("abort", "clear_static_arrays", NoArr))
         /\ UNCHANGED << lens, bufs, srvs, msgs, replies, heap, objs, meta, nreq >>
    ELSE
    LET S1 == clear_static_arrays(Statics)
        S2 == IF op = "xpa_get" THEN XPAGet(S1, failed, rs)
                                ELSE XPASet(S1, failed, rs)
    IN  /\ client' = c.client
        /\ atexit_called' = c.atexit_called
        /\ nreq' = nreq + 1
        /\ IF sig = "push"
           THEN /\ SetStatics(S2)
                /\ last' = Outcome(op, 0, Res("abort", "push_xpadata", NoArr))
                /\ UNCHANGED << objs, meta >>
           ELSE LET P == push_xpadata(S2)
                IN  /\ SetStatics(P.S)
                    /\ objs' = Append(objs, P.obj)
                    /\ meta' = Append(meta,
                           [ live |-> TRUE, op |-> op, n |-> S2.replies,
                             req |-> nreq + 1, freed |-> 0,
                             allocs |-> (Len(heap) + 1)..Len(S2.heap),
                             scans |-> NoScans,
                             rs |-> IF failed THEN << >> ELSE rs ])
                    /\ last' = Outcome(op, Len(objs) + 1, Res("object", Len(objs) + 1, NoArr))

Signals == {"none", "clear", "push"}

LiveObjs == { o \in 1..Len(objs) : meta[o].live }

\* The exploration issues at most MaxRequests requests, and lets a request
\* run to the point where it pushes a new object only while fewer than
\* MaxLive objects are alive.
MayRequest(sig) ==
    /\ nreq < MaxRequests
    /\ sig = "none" => Cardinality(LiveObjs) < MaxLive

Y_xpaget ==
    /\ Running
    /\ \/ \E msg \in { ParseGet(a) : a \in CallArgs } \ {""} :
            BadCall("xpa_get", msg)
       \/ /\ \E a \in CallArgs : ParseGet(a) = ""
          /\ \E openOK \in (IF client = NULL THEN BOOLEAN ELSE {TRUE}),
                atexitOK \in (IF client = NULL /\ atexit_called = 0 THEN BOOLEAN ELSE {TRUE}),
                sig \in { g \in Signals : MayRequest(g) } :
               \/ \E rs \in ReplySeqs(GetReplies) :
                     Request("xpa_get", connect(client, atexit_called, openOK, atexitOK),
                             sig, FALSE, rs)
               \/ Request("xpa_get", connect(client, atexit_called, openOK, atexitOK),
                          sig, TRUE, << >>)

Y_xpaset ==
    /\ Running
    /\ \/ \E msg \in { ParseSet(a) : a \in CallArgs } \ {""} :
            BadCall("xpa_set", msg)
       \/ /\ \E a \in CallArgs : ParseSet(a) = ""
          /\ \E openOK \in (IF client = NULL THEN BOOLEAN ELSE {TRUE}),
                atexitOK \in (IF client = NULL /\ atexit_called = 0 THEN BOOLEAN ELSE {TRUE}),
                sig \in { g \in Signals : MayRequest(g) } :
               \/ \E rs \in ReplySeqs(SetReplies) :
                     Request("xpa_set", connect(client, atexit_called, openOK, atexitOK),
                             sig, FALSE, rs)
               \/ Request("xpa_set", connect(client, atexit_called, openOK, atexitOK),
                          sig, TRUE, << >>)


\* A request that finds the handle open and is left, by an interrupt
\* delivered asynchronously, after pc statements of the loop of
\* clear_static_arrays.
AbortedClear ==
    /\ Running
    /\ client # NULL
    /\ nreq < MaxRequests
    /\ \E op \in {"xpa_get", "xpa_set"}, pc \in 1..(ClearTurn * replies - 1) :
         /\ SetStatics(ClearRun(Statics, pc))
         /\ last' = Outcome(op, 0, Res("abort", "clear_static_arrays", NoArr))
         /\ UNCHANGED << client, atexit_called, objs, meta, nreq >>

\* What the recipients answer to the requests that are interrupted while
\* the answer is built: with and without a payload, with and without a
\* message.
InterruptedReplies(op) ==
    IF op = "xpa_get"
    THEN { r \in GetReplies : r.srv.present /\ r.msg.data # MsgDenied }
    ELSE { r \in SetReplies : r.msg.present }

\* A request that finds the handle open and is left, by an interrupt
\* delivered asynchronously, after ypush_obj and pc statements of the
\* transfer loop of push_xpadata.  The partial object is on the stack of
\* the interpreter, which destroys it later.
AbortedPush ==
    /\ Running
    /\ client # NULL
    /\ MayRequest("none")
    /\ \E op \in {"xpa_get", "xpa_set"} :
         \E rs \in ReplySeqs(InterruptedReplies(op)) :
            \E pc \in 0..(PushTurn * Len(rs) - 1) :
               LET S1 == clear_static_arrays(Statics)
                   S2 == IF op = "xpa_get" THEN XPAGet(S1, FALSE, rs)
                                           ELSE XPASet(S1, FALSE, rs)
                   P == PushRun([S |-> S2, obj |-> NewObj(S2.replies)], 1, pc)
               IN  /\ SetStatics(P.S)
                   /\ objs' = Append(objs, P.obj)
                   /\ meta' = Append(meta,
                          [ live |-> TRUE, op |-> "partial", n |-> S2.replies,
                            req |-> nreq + 1, freed |-> 0,
                            allocs |-> (Len(heap) + 1)..Len(S2.heap),
                            scans |-> NoScans, rs |-> rs ])
                   /\ nreq' = nreq + 1
                   /\ last' = Outcome(op, Len(objs) + 1,
                                      Res("abort", "push_xpadata", NoArr))
                   /\ UNCHANGED << client, atexit_called >>

\* ans(args...): eval_xpadata on a live object.
Eval ==
    /\ Running
    /\ \E o \in LiveObjs, args \in ArgLists :
         \E ub \in (IF eval_xpadata(objs[o], heap, args, "fault").kind = "crash"
                    THEN Undefined ELSE {"fault"}) :
            /\ last' = Outcome("eval", o, eval_xpadata(objs[o], heap, args, ub))
            /\ UNCHANGED << client, atexit_called, lens, bufs, srvs, msgs,
                            replies, heap, objs, meta, nreq >>

AddScans(m, sc) ==
    [m EXCEPT !.scans = [ buffers |-> @.buffers + sc.buffers,
                          errors |-> @.errors + sc.errors,
                          messages |-> @.messages + sc.messages ]]

\* ans.name: extract_xpadata on a live object.
Extract ==
    /\ Running
    /\ \E o \in LiveObjs, name \in Members :
         LET x == extract_xpadata(objs[o], heap, name)
         IN  /\ objs' = [objs EXCEPT ![o] = x.obj]
             /\ meta' = [meta EXCEPT ![o] = AddScans(@, x.scans)]
             /\ last' = Called(name, o, x.res, x.scans)
             /\ UNCHANGED << client, atexit_called, lens, bufs, srvs, msgs,
                             replies, heap, nreq >>

\* Printing a live object.
PrintObj ==
    /\ Running
    /\ \E o \in LiveObjs :
         LET x == print_xpadata(objs[o], heap)
         IN  /\ objs' = [objs EXCEPT ![o] = x.obj]
             /\ meta' = [meta EXCEPT ![o] = AddScans(@, x.scans)]
             /\ last' = Called("print", o, x.res, x.scans)
             /\ UNCHANGED << client, atexit_called, lens, bufs, srvs, msgs,
                             replies, heap, nreq >>

\* xpa_check on a live object, as a subroutine or as a function.
XpaCheck ==
    /\ Running
    /\ \E o \in LiveObjs, onlyfirst \in BOOLEAN, sub \in BOOLEAN :
         LET x == xpa_check(objs[o], heap, onlyfirst, sub)
         IN  /\ objs' = [objs EXCEPT ![o] = x.obj]
             /\ meta' = [meta EXCEPT ![o] = AddScans(@, x.scans)]
             /\ last' = Called("xpa_check", o, x.res, x.scans)
             /\ UNCHANGED << client, atexit_called, lens, bufs, srvs, msgs,
                             replies, heap, nreq >>

\* xpa_list: its first statement is the request made by Y_xpaget; this is
\* the rest of it, on the answer of a get request.
XpaList ==
    /\ Running
    /\ \E o \in { l \in LiveObjs : meta[l].op = "xpa_get" }, sub \in BOOLEAN,
          wr \in WriteOutcomes :
         \E ub \in (IF xpa_list(objs[o], heap, sub, "fault", wr).res.kind = "crash"
                    THEN Undefined ELSE {"fault"}) :
            LET x == xpa_list(objs[o], heap, sub, ub, wr)
            IN  /\ objs' = [objs EXCEPT ![o] = x.obj]
                /\ meta' = [meta EXCEPT ![o] = AddScans(@, x.scans)]
                /\ last' = Called("xpa_list", o, x.res, x.scans)
                /\ UNCHANGED << client, atexit_called, lens, bufs, srvs, msgs,
                                replies, heap, nreq >>

\* xpa_array on a live object.
XpaArray ==
    /\ Running
    /\ \E o \in LiveObjs, i \in ArrayIndices, tname \in ArrayTypes,
          args \in DimLists :
         \E ub \in (IF xpa_array(objs[o], heap, i, tname, args, "fault").kind = "crash"
                    THEN Undefined ELSE {"fault"}) :
            /\ last' = Outcome("xpa_array", o,
                               xpa_array(objs[o], heap, i, tname, args, ub))
            /\ UNCHANGED << client, atexit_called, lens, bufs, srvs, msgs,
                            replies, heap, objs, meta, nreq >>

\* xpa_text on a live object.
XpaText ==
    /\ Running
    /\ \E o \in LiveObjs, chomp \in BOOLEAN, multi \in BOOLEAN :
         \E ub \in (IF xpa_text(objs[o], heap, chomp, multi, "fault").res.kind = "crash"
                    THEN Undefined ELSE {"fault"}) :
            LET x == xpa_text(objs[o], heap, chomp, multi, ub)
            IN  /\ objs' = [objs EXCEPT ![o] = x.obj]
                /\ meta' = [meta EXCEPT ![o] = AddScans(@, x.scans)]
                /\ last' = Called("xpa_text", o, x.res, x.scans)
                /\ UNCHANGED << client, atexit_called, lens, bufs, srvs, msgs,
                                replies, heap, nreq >>

\* The interpreter drops its last reference to an object: free_xpadata
\* runs and the object's block is released.
Destroy ==
    /\ Running
    /\ \E o \in LiveObjs :
         /\ heap' = free_xpadata(objs[o], heap, 1)
         /\ objs' = [objs EXCEPT ![o] = NewObj(0)]
         /\ meta' = [meta EXCEPT ![o] = [ live |-> FALSE, op |-> "freed", n |-> 0,
                                          req |-> @.req, freed |-> nreq,
                                          allocs |-> @.allocs,
                                          scans |-> NoScans, rs |-> << >> ]]
         /\ last' = Outcome("free", o, Res("freed", 0, NoArr))
         /\ UNCHANGED << client, atexit_called, lens, bufs, srvs, msgs,
                         replies, nreq >>

\* Process shutdown: exit() runs the handlers registered with atexit, that
\* is disconnect() if atexit(disconnect) was called with success.  The
\* result records the handle that was closed (NULL if none was).
Exit ==
    /\ Running
    /\ LET d == IF atexit_called = 1 THEN disconnect(client)
                ELSE [client |-> client, closed |-> NULL]
       IN  /\ client' = d.client
           /\ last' = Outcome("exit", 0, Res("exit", d.closed, NoArr))
    /\ UNCHANGED << atexit_called, lens, bufs, srvs, msgs, replies, heap,
                    objs, meta, nreq >>

\* The interpreter consumes the result (or reports the error) of the call
\* that just ended and is ready for the next one.  A faulted or exited
\* process stays dead.
Return ==
    /\ last.res.kind \notin {"none", "crash", "exit"}
    /\ last' = Outcome("init", 0, NoRes)
    /\ UNCHANGED << client, atexit_called, lens, bufs, srvs, msgs, replies,
                    heap, objs, meta, nreq >>

Next ==
    Y_xpaget \/ Y_xpaset \/ Eval \/ Extract \/ PrintObj \/ Destroy \/ Exit
    \/ Return

Spec == Init /\ [][Next]_vars

\* The requests, with the interpreted functions xpa_check, xpa_list and
\* xpa_text as the operations on the answers.
NextInterp ==
    Y_xpaget \/ Y_xpaset \/ XpaCheck \/ XpaList \/ XpaText \/ Destroy \/ Return

SpecInterp == Init /\ [][NextInterp]_vars

\* The requests in a host that delivers interrupts asynchronously, so that
\* they can also be left between two statements of the loops of
\* clear_static_arrays and push_xpadata.
NextAsync ==
    Y_xpaget \/ Y_xpaset \/ AbortedClear \/ AbortedPush \/ Destroy \/ Return

SpecAsync == Init /\ [][NextAsync]_vars

\* What the recipients of one get request may answer when some report an
\* error and others a normal message.
MixedReplies ==
    GetReplies \cup
    { [msg |-> Present(MsgNormal), srv |-> Present(SrvName), buf |-> Present(<< 65, 10 >>)] }

\* The state after a first get request has returned its answer.
InitAnswer ==
    \E rs \in ReplySeqs(MixedReplies) :
        LET S0 == [ lens |-> Zeros, bufs |-> Zeros, srvs |-> Zeros, msgs |-> Zeros,
                    replies |-> 0, heap |-> << >> ]
            P == push_xpadata(XPAGet(clear_static_arrays(S0), FALSE, rs))
        IN  /\ client = Handle
            /\ atexit_called = 1
            /\ lens = P.S.lens
            /\ bufs = P.S.bufs
            /\ srvs = P.S.srvs
            /\ msgs = P.S.msgs
            /\ replies = P.S.replies
            /\ heap = P.S.heap
            /\ objs = << P.obj >>
            /\ meta = << [ live |-> TRUE, op |-> "xpa_get", n |-> Len(rs),
                           req |-> 1, freed |-> 0, allocs |-> 1..Len(P.S.heap),
                           scans |-> NoScans, rs |-> rs ] >>
            /\ nreq = 1
            /\ last = Outcome("init", 0, NoRes)

\* The operations that read one answer.
NextAnswer == Eval \/ Extract \/ XpaCheck \/ Return

SpecAnswer == InitAnswer /\ [][NextAnswer]_vars

\* The requests, with xpa_array as the one operation on the answers.
NextArray == Y_xpaget \/ Y_xpaset \/ XpaArray \/ Destroy \/ Return

SpecArray == Init /\ [][NextArray]_vars

(* ------------------------------------------------------------------ *)
(* Properties                                                         *)
(* ------------------------------------------------------------------ *)

\* The properties about what a call on an object yields are stated for the
\* states in which a call can be made (Running), over every argument list
\* of the exploration.

\* Two results are the same: same kind, and then same value and array.
SameRes(a, b) == a.kind = b.kind /\ a.val = b.val /\ a.arr = b.arr

\* The status message of record k of an object, as an optional string.
MsgOf(o, k) ==
    IF objs[o].msgs[k] = NULL THEN Absent
    ELSE Present(heap[objs[o].msgs[k]].data)

\* The payload of record k of an object, as an optional byte sequence.
BufOf(o, k) ==
    IF objs[o].bufs[k] = NULL THEN Absent
    ELSE Present(heap[objs[o].bufs[k]].data)

\* C1: with n replies, index i resolves to r = i if i > 0 and to i + n if
\* i <= 0; the one- and two-argument evaluations address reply r when
\* 1 <= r <= n (r's message, r's length, and the same result as the
\* evaluation with the positive index r for every key), and fail with
\* "out of range index" otherwise.
C1_RelativeIndex ==
    Running => \A o \in LiveObjs : \A i \in Indices :
        LET n == objs[o].replies
            r == IF i > 0 THEN i ELSE i + n
            one == eval_xpadata(objs[o], heap, << Long(i) >>, "fault")
        IN  IF 1 <= r /\ r <= n
            THEN /\ one.kind = "string" /\ one.val = MsgOf(o, r)
                 /\ SameRes(eval_xpadata(objs[o], heap, << Long(i), Void >>, "fault"),
                            Res("long", objs[o].lens[r], NoArr))
                 /\ \A key \in Keys, ub \in Undefined :
                        SameRes(eval_xpadata(objs[o], heap, << Long(i), key >>, ub),
                                eval_xpadata(objs[o], heap, << Long(r), key >>, ub))
            ELSE /\ SameRes(one, Err("out of range index", NoArr))
                 /\ \A key \in Keys, ub \in Undefined :
                        SameRes(eval_xpadata(objs[o], heap, << Long(i), key >>, ub),
                                Err("out of range index", key.arr))

\* An object with two replies was just indexed out of range, and another
\* evaluation of it addressed a reply.
C1_Witness ==
    /\ last.op = "eval"
    /\ last.res.kind = "error"
    /\ last.res.val = "out of range index"
    /\ objs[last.obj].replies = 2
    /\ objs[last.obj].msgs[1] # objs[last.obj].msgs[2]

\* C2: an answer made by a request whose transport call produced n >= 0
\* replies reports n as its reply count (ans() and ans.replies), and n is
\* within the recipient limit given to the transport.
C2_ReplyCount ==
    Running => \A o \in LiveObjs :
        meta[o].n >= 0 =>
            /\ SameRes(eval_xpadata(objs[o], heap, << Void >>, "fault"),
                       Res("long", meta[o].n, NoArr))
            /\ SameRes(extract_xpadata(objs[o], heap, "replies").res,
                       Res("long", meta[o].n, NoArr))
            /\ 0 <= meta[o].n /\ meta[o].n <= NMAX

\* A request just returned an answer for a transport call with two replies.
C2_Witness ==
    /\ last.op \in {"xpa_get", "xpa_set"}
    /\ last.res.kind = "object"
    /\ meta[last.obj].n = 2
    /\ objs[last.obj].replies = 2

\* C3: without the nmax keyword a request asks for at most one recipient
\* (the documented default), so neither the static arrays nor any answer
\* object ever hold more than one reply.
C3_DefaultOneRecipient ==
    /\ replies <= DefaultNmax
    /\ \A o \in 1..Len(objs) : objs[o].replies <= DefaultNmax

\* C4: a record whose payload is absent has payload length 0: ans(i,)
\* yields 0 for it.
C4_AbsentPayloadLengthZero ==
    Running => \A o \in LiveObjs : \A k \in 1..objs[o].replies :
        objs[o].bufs[k] = NULL =>
            SameRes(eval_xpadata(objs[o], heap, << Long(k), Void >>, "fault"),
                    Res("long", 0, NoArr))

\* The places from which block p is reachable: slots of the static arrays
\* and slots, within the reply count, of the objects alive.
StaticRefs(p) ==
    { << a, k >> \in {"bufs", "srvs", "msgs"} \X Slots :
        (CASE a = "bufs" -> bufs[k] [] a = "srvs" -> srvs[k] [] OTHER -> msgs[k]) = p }

ObjRefs(p) ==
    { << o, a, k >> \in LiveObjs \X {"bufs", "srvs", "msgs"} \X Slots :
        /\ k <= objs[o].replies
        /\ (CASE a = "bufs" -> objs[o].bufs[k]
              [] a = "srvs" -> objs[o].srvs[k]
              [] OTHER -> objs[o].msgs[k]) = p }

\* C5: no block is freed twice; a block not yet freed is reachable from
\* exactly one place (a static slot or a slot of one live object) and a
\* freed one from none; and once an object has been destroyed, also when
\* the static arrays were reset in between, every block its request
\* produced has been freed exactly once.
C5_FreedExactlyOnce ==
    /\ \A p \in 1..Len(heap) :
          /\ heap[p].frees <= 1
          /\ Cardinality(StaticRefs(p)) + Cardinality(ObjRefs(p))
                = (IF heap[p].frees = 0 THEN 1 ELSE 0)
    /\ \A o \in 1..Len(objs) :
          ~meta[o].live => \A p \in meta[o].allocs : heap[p].frees = 1

\* An object holding blocks was built, a later request reset the static
\* arrays, and then the object was destroyed.
C5_Witness ==
    \E o \in 1..Len(objs) :
        /\ ~meta[o].live
        /\ Cardinality(meta[o].allocs) >= 3
        /\ meta[o].freed > meta[o].req

\* A string starts with a tag.
StartsWith(str, tag) ==
    Len(str) >= Len(tag) /\ SubSeq(str, 1, Len(tag)) = tag

\* The records of an object with an error message, with a normal message,
\* with a payload.
ErrorRecs(o) ==
    { k \in 1..objs[o].replies :
        MsgOf(o, k).present /\ StartsWith(MsgOf(o, k).data, TagError) }

MessageRecs(o) ==
    { k \in 1..objs[o].replies :
        MsgOf(o, k).present /\ StartsWith(MsgOf(o, k).data, TagMessage) }

BufferRecs(o) == { k \in 1..objs[o].replies : BufOf(o, k).present }

\* C6: ans(i,0) is 2 if the status message of record i starts with
\* "XPA$ERROR", 1 if it starts with "XPA$MESSAGE", 0 if it is absent or
\* starts with neither.
C6_Classification ==
    Running => \A o \in LiveObjs : \A k \in 1..objs[o].replies :
        SameRes(eval_xpadata(objs[o], heap, << Long(k), Long(0) >>, "fault"),
                Res("int",
                    IF k \in ErrorRecs(o) THEN 2
                    ELSE IF k \in MessageRecs(o) THEN 1
                    ELSE 0,
                    NoArr))

\* A record was just classified as an error, in an object that also holds
\* a message carrying neither tag.
C6_Witness ==
    /\ last.op = "eval"
    /\ last.res.kind = "int"
    /\ last.res.val = 2
    /\ \E k \in 1..objs[last.obj].replies : MsgOf(last.obj, k) = Present(MsgOther)

\* C7: the members errors, messages and buffers are the numbers of records
\* with an error message, with a normal message and with a payload, in
\* every state of the object's caches; and so is the value a read of the
\* member just returned.
C7_Counts ==
    /\ Running => \A o \in LiveObjs :
          /\ SameRes(extract_xpadata(objs[o], heap, "errors").res,
                     Res("long", Cardinality(ErrorRecs(o)), NoArr))
          /\ SameRes(extract_xpadata(objs[o], heap, "messages").res,
                     Res("long", Cardinality(MessageRecs(o)), NoArr))
          /\ SameRes(extract_xpadata(objs[o], heap, "buffers").res,
                     Res("long", Cardinality(BufferRecs(o)), NoArr))
    /\ last.op = "errors" => last.res.val = Cardinality(ErrorRecs(last.obj))
    /\ last.op = "messages" => last.res.val = Cardinality(MessageRecs(last.obj))
    /\ last.op = "buffers" => last.res.val = Cardinality(BufferRecs(last.obj))

\* The errors of an object with two records, one of them an error, were
\* just read, after its buffers had been counted.
C7_Witness ==
    /\ last.op = "errors"
    /\ last.res.val = 1
    /\ objs[last.obj].replies = 2
    /\ objs[last.obj].buffers >= 0

CountedMembers == {"buffers", "errors", "messages"}

\* The cached count of a member in an object (-1: not yet counted).
Cached(obj, name) ==
    CASE name = "buffers" -> obj.buffers
      [] name = "errors" -> obj.errors
      [] OTHER -> obj.messages

\* C8: for each of buffers, errors and messages the records of an object
\* are scanned at most once over its life; the member is cached exactly
\* when it has been scanned; a read yields the cached value and scans only
\* if the member was not yet cached; and a cached value never changes.
C8_ScanOnce ==
    /\ [](\A o \in LiveObjs : \A name \in CountedMembers :
            /\ meta[o].scans[name] <= 1
            /\ (meta[o].scans[name] = 1) <=> (Cached(objs[o], name) >= 0))
    /\ [](last.op \in CountedMembers =>
            /\ meta[last.obj].live
            /\ last.res.val = Cached(objs[last.obj], last.op))
    /\ [][\A o \in LiveObjs : \A name \in CountedMembers :
            (Cached(objs[o], name) >= 0 /\ meta'[o].live) =>
                /\ Cached(objs'[o], name) = Cached(objs[o], name)
                /\ meta'[o].scans[name] = meta[o].scans[name]]_vars

\* The errors of an object were just read without a scan (the value came
\* from the cache), and all three members have been scanned once.
C8_Witness ==
    /\ last.op = "errors"
    /\ last.scans.errors = 0
    /\ last.res.val = 0
    /\ objs[last.obj].replies = 2
    /\ \A name \in CountedMembers : meta[last.obj].scans[name] = 1

\* The true count of a member, from the records.
TrueCount(o, name) ==
    CASE name = "buffers" -> Cardinality(BufferRecs(o))
      [] name = "errors" -> Cardinality(ErrorRecs(o))
      [] OTHER -> Cardinality(MessageRecs(o))

\* C9: no step changes the reply count, or the length, payload, server or
\* message of a record, of an object that stays alive; a counted member
\* either keeps its value or goes from -1 to the true count; and the
\* blocks the object refers to keep their contents.
C9_RecordsImmutable ==
    [][\A o \in LiveObjs : meta'[o].live =>
          /\ objs'[o].replies = objs[o].replies
          /\ objs'[o].lens = objs[o].lens
          /\ objs'[o].bufs = objs[o].bufs
          /\ objs'[o].srvs = objs[o].srvs
          /\ objs'[o].msgs = objs[o].msgs
          /\ \A k \in 1..objs[o].replies :
                \A p \in {objs[o].bufs[k], objs[o].srvs[k], objs[o].msgs[k]} \ {NULL} :
                    heap'[p] = heap[p]
          /\ \A name \in CountedMembers :
                \/ Cached(objs'[o], name) = Cached(objs[o], name)
                \/ /\ Cached(objs[o], name) = -1
                   /\ Cached(objs'[o], name) = TrueCount(o, name)]_vars

\* An evaluation of an object with two records just failed, after its
\* errors were counted and before its buffers were.
C9_Witness ==
    /\ last.op = "eval"
    /\ last.res.kind = "error"
    /\ objs[last.obj].replies = 2
    /\ objs[last.obj].errors = 1
    /\ objs[last.obj].buffers = -1

\* C10: with a numeric array as key, ans(i,arr) fails with "invalid array
\* size" and leaves arr unchanged when the size of arr in bytes differs
\* from the payload length of record i, and otherwise yields arr itself,
\* holding the payload bytes.
C10_ArrayCopy ==
    Running => \A o \in LiveObjs : \A k \in 1..objs[o].replies :
        \A key \in KeyArrays, ub \in Undefined :
            LET r == eval_xpadata(objs[o], heap, << Long(k), key >>, ub)
            IN  IF Len(key.arr.bytes) # objs[o].lens[k]
                THEN SameRes(r, Err("invalid array size", key.arr))
                ELSE /\ r.kind = "array"
                     /\ r.val = key.arr.id
                     /\ r.arr = [key.arr EXCEPT !.bytes = BufOf(o, k).data]

\* The same, for the records whose payload is present.
C10_ArrayCopyPresent ==
    Running => \A o \in LiveObjs : \A k \in 1..objs[o].replies :
        \A key \in KeyArrays, ub \in Undefined :
            LET r == eval_xpadata(objs[o], heap, << Long(k), key >>, ub)
            IN  BufOf(o, k).present =>
                IF Len(key.arr.bytes) # objs[o].lens[k]
                THEN SameRes(r, Err("invalid array size", key.arr))
                ELSE /\ r.kind = "array"
                     /\ r.val = key.arr.id
                     /\ r.arr = [key.arr EXCEPT !.bytes = BufOf(o, k).data]

\* C11: for every record of every live object, ans(i,3) never fails: it
\* yields nil when the record has no payload (or a payload of no bytes) and
\* the payload bytes otherwise.
C11_Key3NeverFails ==
    Running => \A o \in LiveObjs : \A k \in 1..objs[o].replies :
        \A ub \in Undefined :
            LET r == eval_xpadata(objs[o], heap, << Long(k), Long(3) >>, ub)
                p == BufOf(o, k)
            IN  IF ~p.present \/ p.data = << >>
                THEN SameRes(r, Res("nil", 0, NoArr))
                ELSE SameRes(r, Res("bytes", p.data, NoArr))

\* The same, for the records whose length field agrees with their payload.
C11_Key3Consistent ==
    Running => \A o \in LiveObjs : \A k \in 1..objs[o].replies :
        \A ub \in Undefined :
            LET r == eval_xpadata(objs[o], heap, << Long(k), Long(3) >>, ub)
                p == BufOf(o, k)
            IN  (objs[o].bufs[k] = NULL => objs[o].lens[k] = 0) =>
                IF ~p.present \/ p.data = << >>
                THEN SameRes(r, Res("nil", 0, NoArr))
                ELSE SameRes(r, Res("bytes", p.data, NoArr))

\* The requests are the only operations that call connect().
Requests == {"xpa_get", "xpa_set"}

\* C12: the handle is opened only by a request that finds none, a request
\* that finds one keeps it, at shutdown a handle that is open is closed
\* exactly once and none is closed when none is open, and disconnect()
\* called again after disconnect() closes nothing.
C12_Connection ==
    [][ /\ (client = NULL /\ client' # NULL) => last'.op \in Requests
        /\ (client # NULL /\ last'.op \in Requests) => client' = client
        /\ (last'.op = "exit") =>
               /\ client' = NULL
               /\ last'.res.val = client
        /\ disconnect(disconnect(client).client).closed = NULL ]_vars

\* The same, for the shutdowns of a process in which no call of atexit()
\* has failed.
C12_ConnectionRegistered ==
    [][ /\ (client = NULL /\ client' # NULL) => last'.op \in Requests
        /\ (client # NULL /\ last'.op \in Requests) => client' = client
        /\ (last'.op = "exit" /\ (client # NULL => atexit_called = 1)) =>
               /\ client' = NULL
               /\ last'.res.val = client
        /\ disconnect(disconnect(client).client).closed = NULL ]_vars

\* The y_error message of connect() when XPAOpen fails.
ConnectionError == "failed to open XPA persistent connection"

\* C13: a request that finds no handle and opens none fails with an error,
\* produces no object and leaves the static arrays, their count and the
\* heap as they were; so does every request that ends with the connection
\* error.
C13_ConnectFailure ==
    [][ (/\ last'.op \in Requests
         /\ \/ client = NULL /\ client' = NULL
            \/ last'.res.kind = "error" /\ last'.res.val = ConnectionError)
        => /\ last'.res.kind = "error"
           /\ last'.obj = 0
           /\ UNCHANGED << lens, bufs, srvs, msgs, replies, heap, objs, meta >> ]_vars

\* A request has just failed with the connection error.
C13_Witness ==
    /\ last.op \in Requests
    /\ last.res.kind = "error"
    /\ last.res.val = ConnectionError
    /\ client = NULL

\* The indices of the error records of an object, in reply order.
ErrorSeq(o) ==
    SelectSeq([k \in 1..objs[o].replies |-> k], LAMBDA k : k \in ErrorRecs(o))

\* The status messages of the records ks, each without its first 10
\* characters, joined by "; ".
RECURSIVE Joined(_, _)
Joined(o, ks) ==
    LET m == MsgOf(o, Head(ks)).data
        str == IF Len(m) > 10 THEN SubSeq(m, 11, Len(m)) ELSE << >>
    IN  IF Len(ks) = 1 THEN str
        ELSE str \o << ";", " " >> \o Joined(o, Tail(ks))

\* C14: on an answer without error record xpa_check yields nothing; with
\* E > 0 error records it yields the stripped messages of all of them (of
\* the first alone with onlyfirst), in reply order, joined by "; ", raised
\* as an error when called as a subroutine and returned otherwise.
C14_Check ==
    Running => \A o \in LiveObjs : \A onlyfirst \in BOOLEAN, sub \in BOOLEAN :
        LET r == xpa_check(objs[o], heap, onlyfirst, sub).res
            es == ErrorSeq(o)
        IN  IF es = << >>
            THEN SameRes(r, Res("nil", 0, NoArr))
            ELSE SameRes(r, Res(IF sub THEN "raised" ELSE "string",
                                Present(Joined(o, IF onlyfirst THEN << Head(es) >>
                                                  ELSE es)),
                                NoArr))

\* xpa_check has just raised the two different errors of an answer.
C14_Witness ==
    /\ last.op = "xpa_check"
    /\ last.res.kind = "raised"
    /\ last.res.val.data = << "n", "o", ";", " ", "x" >>

\* The answers of get requests that are alive.
GetObjs == { o \in LiveObjs : meta[o].op = "xpa_get" }

\* Two sequences of results are the same.
SameAll(rs, qs) ==
    Len(rs) = Len(qs) /\ \A j \in 1..Len(rs) : SameRes(rs[j], qs[j])

\* C15: on an answer with at least one error record xpa_list writes the
\* status message of every error record, in reply order, then fails with
\* an error, yielding no list.
C15_ListReportsErrors ==
    Running => \A o \in GetObjs : \A sub \in BOOLEAN, wr \in WriteOutcomes :
        LET r == xpa_list(objs[o], heap, sub, "fault", wr).res
            es == ErrorSeq(o)
        IN  es # << >> =>
               /\ r.kind = "list_error"
               /\ SameAll(r.val.written,
                          [j \in 1..Len(es) |-> Res("string", MsgOf(o, es[j]), NoArr)])

\* What does hold: with an error record xpa_list fails and yields no list,
\* and what it passes to write for each error record, if write accepts it,
\* is the payload length ans(i,) of the record, not its message.
C15_ListFails ==
    Running => \A o \in GetObjs : \A sub \in BOOLEAN, wr \in WriteOutcomes :
        LET r == xpa_list(objs[o], heap, sub, "fault", wr).res
            es == ErrorSeq(o)
        IN  es # << >> =>
               /\ r.kind = "list_error"
               /\ wr = "converted" =>
                     SameAll(r.val.written,
                             [j \in 1..Len(es) |->
                                 Res("long", objs[o].lens[es[j]], NoArr)])

\* The extents a well-formed dimension list asks for, in order.
RECURSIVE Extents(_)
Extents(args) ==
    IF args = << >> THEN << >>
    ELSE (IF Head(args).rank = 0 THEN Head(args).elems
          ELSE IF Head(args).rank = 1 THEN Tail(Head(args).elems)
          ELSE << >>) \o Extents(Tail(args))

\* A dimension list is malformed, or asks for an extent below 1.
BadDims(args) ==
    \/ \E j \in 1..Len(args) :
          \/ ~IS_INTEGER(args[j].type) /\ ~IS_VOID(args[j].type)
          \/ args[j].rank = 1 /\ Len(args[j].elems) # args[j].elems[1] + 1
    \/ \E e \in 1..Len(Extents(args)) : Extents(args)[e] < 1

\* A fresh zero-filled array of the given element type and extents (one
\* element when there is no extent).
Fresh(tname, extents) ==
    [ id |-> "new", type |-> TypeId(tname), ntot |-> Product(extents),
      bytes |-> [b \in 1..(Product(extents) * ElemSize(TypeId(tname))) |-> 0] ]

\* The size-checked copy of the payload of record k into the array arr.
ArrayCopy(o, k, arr) ==
    IF Len(arr.bytes) # objs[o].lens[k]
    THEN Err("invalid array size", arr)
    ELSE Res("array", arr.id, [arr EXCEPT !.bytes = BufOf(o, k).data])

\* C16: xpa_array on record i (the first when i is nil) fails with
\* "invalid dimension(s)" when the dimension list is malformed or asks for
\* an extent below 1, and otherwise yields what the size-checked copy into
\* a fresh array of the requested type and shape yields, whatever the
\* dimension list (none included).
C16_ArrayExtraction ==
    Running => \A o \in LiveObjs : \A i \in ArrayIndices, tname \in ArrayTypes :
        \A args \in DimLists, ub \in Undefined :
            LET k == IF IS_VOID(i.type) THEN 1 ELSE i.v
                r == xpa_array(objs[o], heap, i, tname, args, ub)
            IN  k \in 1..objs[o].replies =>
                   IF BadDims(args)
                   THEN SameRes(r, Err("invalid dimension(s)", NoArr))
                   ELSE SameRes(r, ArrayCopy(o, k, Fresh(tname, Extents(args))))

\* The same, for the dimension lists that ask for at least one extent and
\* the records whose length field agrees with their payload.
C16_ArrayShaped ==
    Running => \A o \in LiveObjs : \A i \in ArrayIndices, tname \in ArrayTypes :
        \A args \in DimLists, ub \in Undefined :
            LET k == IF IS_VOID(i.type) THEN 1 ELSE i.v
                r == xpa_array(objs[o], heap, i, tname, args, ub)
            IN  (/\ k \in 1..objs[o].replies
                 /\ objs[o].bufs[k] = NULL => objs[o].lens[k] = 0
                 /\ BadDims(args) \/ Extents(args) # << >>) =>
                   IF BadDims(args)
                   THEN SameRes(r, Err("invalid dimension(s)", NoArr))
                   ELSE SameRes(r, ArrayCopy(o, k, Fresh(tname, Extents(args))))

\* xpa_array has just copied a payload into a fresh array.
C16_Copied ==
    /\ last.op = "xpa_array"
    /\ last.res.kind = "array"
    /\ last.res.arr.bytes = << 65, 10 >>

\* A byte sequence split on its newline bytes (an empty last piece is
\* dropped).
RECURSIVE SplitLines(_, _)
SplitLines(bytes, cur) ==
    IF bytes = << >>
    THEN (IF cur = << >> THEN << >> ELSE << cur >>)
    ELSE IF Head(bytes) = 10
         THEN << cur >> \o SplitLines(Tail(bytes), << >>)
         ELSE SplitLines(Tail(bytes), Append(cur, Head(bytes)))

\* A byte sequence without its last byte if that is a newline.
Chomped(bytes) ==
    IF bytes # << >> /\ bytes[Len(bytes)] = 10
    THEN SubSeq(bytes, 1, Len(bytes) - 1)
    ELSE bytes

\* What the claim of C17 says xpa_text yields on object o.
TextExpected(o, chomp, multi) ==
    IF ErrorSeq(o) # << >>
    THEN Res("raised", Present(Joined(o, ErrorSeq(o))), NoArr)
    ELSE IF multi THEN Res("strings", SplitLines(BufOf(o, 1).data, << >>), NoArr)
    ELSE IF chomp THEN Res("strings", << Chomped(BufOf(o, 1).data) >>, NoArr)
    ELSE Res("string", BufOf(o, 1), NoArr)

\* C17: on an answer with an error record xpa_text fails with the joined
\* errors of xpa_check; otherwise it yields the lines of the payload of
\* the first record with multi, else that payload without one trailing
\* newline with chomp (whatever the payload, empty or absent included),
\* else that payload as a string.
C17_Text ==
    Running => \A o \in LiveObjs : \A chomp \in BOOLEAN, multi \in BOOLEAN :
        \A ub \in Undefined :
            objs[o].replies >= 1 =>
                SameRes(xpa_text(objs[o], heap, chomp, multi, ub).res,
                        TextExpected(o, chomp, multi))

\* The same, for the answers whose first record holds a payload of at
\* least one byte or is an error.
C17_TextPresent ==
    Running => \A o \in LiveObjs : \A chomp \in BOOLEAN, multi \in BOOLEAN :
        \A ub \in Undefined :
            (/\ objs[o].replies >= 1
             /\ ErrorSeq(o) # << >> \/ BufOf(o, 1).data # << >>) =>
                SameRes(xpa_text(objs[o], heap, chomp, multi, ub).res,
                        TextExpected(o, chomp, multi))

\* The claim of C17 for chomp alone, on the answers whose records have a
\* length that agrees with their payload.
C17_ChompConsistent ==
    Running => \A o \in LiveObjs : \A ub \in Undefined :
        (/\ objs[o].replies >= 1
         /\ \A k \in 1..objs[o].replies :
                objs[o].bufs[k] = NULL => objs[o].lens[k] = 0) =>
            SameRes(xpa_text(objs[o], heap, TRUE, FALSE, ub).res,
                    TextExpected(o, TRUE, FALSE))

(* ------------------------------------------------------------------ *)
(* Answers and interrupted requests                                   *)
(* ------------------------------------------------------------------ *)

\* What pointer p of an object leads to.
Held(p) == IF p = NULL THEN Absent ELSE Present(heap[p].data)

\* The k-th record the transport call of the request of object o delivered.
Delivered(o, k) ==
    [ msg |-> meta[o].rs[k].msg,
      srv |-> meta[o].rs[k].srv,
      buf |-> IF meta[o].op = "xpa_get" THEN meta[o].rs[k].buf ELSE Absent ]

\* The blocks the records of object o point to.
Pointers(o) ==
    UNION { { objs[o].msgs[k], objs[o].srvs[k], objs[o].bufs[k] } :
            k \in 1..objs[o].replies } \ {NULL}

Owners(S, obj, p) ==
    Cardinality({ << a, k >> \in {"bufs", "srvs", "msgs"} \X (1..S.replies) :
                    S[a][k] = p })
    + Cardinality({ << a, k >> \in {"bufs", "srvs", "msgs"} \X (1..obj.replies) :
                    obj[a][k] = p })

\* The object a request left on the stack, if it got that far.
LeftObj(out, os) == IF out.obj = 0 THEN NewObj(0) ELSE os[out.obj]

\* C19: when a request is left in push_xpadata (at its start, or between
\* two statements of the transfer loop), every block the request allocated
\* is owned by exactly one of the accumulator and the new object, and the
\* next reset together with the destruction of the partial object frees
\* it exactly once.
C19_InterruptedPush ==
    [][ (last'.res.kind = "abort" /\ last'.res.val = "push_xpadata") =>
            LET S == Statics'
                obj == LeftObj(last', objs')
                T == clear_static_arrays(S)
                h == free_xpadata(obj, T.heap, 1)
            IN  \A p \in (Len(heap) + 1)..Len(heap') :
                    /\ Owners(S, obj, p) = 1
                    /\ h[p].frees = 1 ]_vars

\* The blocks the accumulator holds within its held count.
HeldBlocks(S) ==
    UNION { { S.bufs[k], S.srvs[k], S.msgs[k] } : k \in 1..S.replies } \ {NULL}

\* C20: when a request is left in clear_static_arrays (at its start, or
\* between two statements of the loop), the reset of the next request ends
\* with held count 0 and every payload, server and message slot absent,
\* no block is freed twice, and every block held when the first reset
\* began has been freed.
C20_ResumedReset ==
    [][ (last'.res.kind = "abort" /\ last'.res.val = "clear_static_arrays") =>
            LET T == clear_static_arrays(Statics')
            IN  /\ T.replies = 0
                /\ \A k \in Slots :
                      T.bufs[k] = NULL /\ T.srvs[k] = NULL /\ T.msgs[k] = NULL
                /\ \A p \in 1..Len(T.heap) : T.heap[p].frees <= 1
                /\ \A p \in HeldBlocks(Statics) : T.heap[p].frees = 1 ]_vars

\* The part of C20 that holds: the resumed reset leaves the accumulator
\* empty and frees no block twice.
C20_ResumedResetEmpty ==
    [][ (last'.res.kind = "abort" /\ last'.res.val = "clear_static_arrays") =>
            LET T == clear_static_arrays(Statics')
            IN  /\ T.replies = 0
                /\ \A k \in Slots :
                      T.bufs[k] = NULL /\ T.srvs[k] = NULL /\ T.msgs[k] = NULL
                /\ \A p \in 1..Len(T.heap) : T.heap[p].frees <= 1 ]_vars

(* ------------------------------------------------------------------ *)
(* The accumulator between requests                                   *)
(* ------------------------------------------------------------------ *)

\* The accumulator S holds nothing: held count 0, every payload, server
\* and message slot absent.
Drained(S) ==
    /\ S.replies = 0
    /\ \A k \in Slots : S.bufs[k] = NULL /\ S.srvs[k] = NULL /\ S.msgs[k] = NULL

\* C21: a request that returns an answer object leaves the accumulator
\* drained (held count 0, every payload, server and message slot absent),
\* and every request that reaches its transport call hands it an
\* accumulator that the reset has drained.
C21_Drained ==
    [][ /\ last'.res.kind = "object" => Drained(Statics')
        /\ nreq' = nreq + 1 => Drained(clear_static_arrays(Statics)) ]_vars

\* A request has returned an answer with records after an earlier request
\* whose blocks, left in the accumulator, were freed by the reset.
C21_Witness ==
    /\ last.res.kind = "object"
    /\ objs[last.obj].replies >= 1
    /\ \A k \in Slots : bufs[k] = NULL /\ srvs[k] = NULL /\ msgs[k] = NULL
    /\ \E p \in 1..Len(heap) :
          /\ heap[p].frees = 1
          /\ \A o \in 1..Len(objs) : p \notin meta[o].allocs

(* ------------------------------------------------------------------ *)
(* Keys of the two-argument evaluation                                *)
(* ------------------------------------------------------------------ *)

\* The keys that are not absent, not an integer scalar in 0..4 and not an
\* array of numbers.
OtherKeys ==
    { key \in Keys :
        /\ key.type # Y_VOID
        /\ ~(key.rank = 0 /\ IS_INTEGER(key.type) /\ key.v \in 0..4)
        /\ ~(key.rank > 0 /\ IS_NUMBER(key.type)) }

\* C22: for a valid index the one-argument evaluation and the evaluation
\* with key 1 give the same result, which is the status message of the
\* record, nil when the record has none and never an error; and a key
\* that is not absent, not an integer scalar in 0..4 and not an array of
\* numbers ends the call with the error "invalid key value".
C22_MessageAndKeys ==
    Running => \A o \in LiveObjs : \A k \in 1..objs[o].replies :
        LET one == eval_xpadata(objs[o], heap, << Long(k) >>, "fault")
            two == eval_xpadata(objs[o], heap, << Long(k), Long(1) >>, "fault")
        IN  /\ SameRes(one, two)
            /\ one.kind = "string"
            /\ one.val = MsgOf(o, k)
            /\ \A key \in OtherKeys, ub \in Undefined :
                  SameRes(eval_xpadata(objs[o], heap, << Long(k), key >>, ub),
                          Err("invalid key value", key.arr))

\* An answer whose records have a server and a payload but no status
\* message was just evaluated, and the result is a nil string.
C22_Witness ==
    /\ last.op = "eval"
    /\ last.res.kind = "string"
    /\ ~last.res.val.present
    /\ objs[last.obj].replies >= 1
    /\ \A k \in 1..objs[last.obj].replies :
          /\ objs[last.obj].msgs[k] = NULL
          /\ objs[last.obj].srvs[k] # NULL
          /\ objs[last.obj].bufs[k] # NULL
          /\ objs[last.obj].lens[k] > 0

(* ------------------------------------------------------------------ *)
(* Counts and per-record evaluation                                   *)
(* ------------------------------------------------------------------ *)

\* The valid indices of object o whose evaluation with key 0 yields c.
ClassRecs(o, c) ==
    { i \in 1..objs[o].replies :
        eval_xpadata(objs[o], heap, << Long(i), Long(0) >>, "fault").val = c }

\* C23: the member errors of an answer is the number of valid indices
\* whose evaluation with key 0 yields 2 and the member messages the number
\* of those where it yields 1; no record is counted by both, so that
\* errors + messages <= replies; and xpa_check collects the messages of
\* exactly the first `errors` records classified 2 (of the first alone
\* with onlyfirst), or nothing when errors is 0.
C23_CountsAndClasses ==
    Running => \A o \in LiveObjs :
        LET e == extract_xpadata(objs[o], heap, "errors").res
            m == extract_xpadata(objs[o], heap, "messages").res
            es == SelectSeq([k \in 1..objs[o].replies |-> k],
                            LAMBDA k : k \in ClassRecs(o, 2))
        IN  /\ SameRes(e, Res("long", Cardinality(ClassRecs(o, 2)), NoArr))
            /\ SameRes(m, Res("long", Cardinality(ClassRecs(o, 1)), NoArr))
            /\ \A i \in 1..objs[o].replies :
                  ~(/\ objs[o].msgs[i] # NULL
                    /\ IS_ERROR(heap[objs[o].msgs[i]].data)
                    /\ IS_MESSAGE(heap[objs[o].msgs[i]].data))
            /\ e.val + m.val <= objs[o].replies
            /\ \A onlyfirst \in BOOLEAN, sub \in BOOLEAN :
                  LET r == xpa_check(objs[o], heap, onlyfirst, sub).res
                  IN  IF e.val = 0
                      THEN SameRes(r, Res("nil", 0, NoArr))
                      ELSE /\ r.kind = (IF sub THEN "raised" ELSE "string")
                           /\ r.val = Present(Joined(o,
                                  SubSeq(es, 1, IF onlyfirst THEN 1 ELSE e.val)))

\* xpa_check has just raised the one error of an answer whose other record
\* holds a normal message.
C23_Witness ==
    /\ last.op = "xpa_check"
    /\ last.res.kind = "raised"
    /\ objs[last.obj].replies = 2
    /\ Cardinality(ClassRecs(last.obj, 2)) = 1
    /\ Cardinality(ClassRecs(last.obj, 1)) = 1

\* The valid indices of object o whose evaluation with key 3 yields an
\* array of bytes, ub resolving the undefined behaviour it may run into.
PayloadRecs(o, ub) ==
    { i \in 1..objs[o].replies :
        eval_xpadata(objs[o], heap, << Long(i), Long(3) >>, ub).kind = "bytes" }

\* C24: the member buffers of an answer is the number of valid indices
\* whose evaluation with key 3 yields a non-nil array of bytes.
C24_BuffersAndPayloads ==
    Running => \A o \in LiveObjs : \A ub \in Undefined :
        SameRes(extract_xpadata(objs[o], heap, "buffers").res,
                Res("long", Cardinality(PayloadRecs(o, ub)), NoArr))

\* The same, for the answers in which a record has a payload pointer
\* exactly when its length is positive.
C24_BuffersConsistent ==
    Running => \A o \in LiveObjs : \A ub \in Undefined :
        (\A i \in 1..objs[o].replies :
            (objs[o].bufs[i] # NULL) <=> (objs[o].lens[i] > 0))
        => SameRes(extract_xpadata(objs[o], heap, "buffers").res,
                   Res("long", Cardinality(PayloadRecs(o, ub)), NoArr))

(* ------------------------------------------------------------------ *)
(* Registration of the shutdown handler                               *)
(* ------------------------------------------------------------------ *)

\* C25: in every reachable state disconnect has been registered with
\* atexit at most once, and whenever a handle is open it has been
\* registered, so that the shutdown closes the handle.
C25_LiveHandleRegistered ==
    /\ atexit_called \in {0, 1}
    /\ client # NULL =>
          /\ atexit_called = 1
          /\ disconnect(client).closed = client

\* The part of C25 that holds: disconnect is registered at most once (the
\* flag is set by the one successful call of atexit and never cleared), and
\* it is registered only while a handle is open or after one was.
C25_RegisteredAtMostOnce ==
    [][ /\ atexit_called \in {0, 1}
        /\ atexit_called = 1 => atexit_called' = 1
        /\ (atexit_called = 0 /\ atexit_called' = 1) =>
              /\ client = NULL
              /\ client' # NULL
              /\ last'.op \in Requests ]_vars
====
